---- MODULE Spec2Model ----
(***************************************************************************)
(* Bot Hosting Admin Panel (backend/server.py): the bot records and the    *)
(* log store kept in the document store, and the request handlers that     *)
(* read and write them.  Every handler is a coroutine; another handler can *)
(* run at each of its awaits, so a handler is modelled as a task whose     *)
(* steps are its database operations, each taken together with the code    *)
(* that follows it up to the next await.  A store operation inside a try   *)
(* block may raise (the store is a network service); the number of such    *)
(* failures in a run is bounded.  Pids are made up by start_bot, so what   *)
(* the operating system answers about one is left open until the process  *)
(* is known to have exited.  In Spec and in SpecRestart no WebSocket       *)
(* client is connected: manager.broadcast then sends nothing and does not  *)
(* suspend.  SpecWs is the websocket side: the clients, the periodic loop  *)
(* each connection runs, the broadcast, and the handlers that reconcile a  *)
(* record with the process table.                                          *)
(***************************************************************************)
EXTENDS Integers, Sequences, FiniteSets, TLC

(* ------------------------------ bounds --------------------------------- *)
MaxBots == 2
MaxTasks == 2
MaxCalls == 3
MaxPid == 2
MaxFail == 1
MaxSockets == 2

(* ------------------------- program constants --------------------------- *)
\* random.randint(1000, 9999): the lowest fake pid
PidLow == 1000

\* Optional[...] = None
None == 0

RUNNING == "running"
STOPPED == "stopped"
ERROR == "error"
STARTING == "starting"
STOPPING == "stopping"
BotStatus == {RUNNING, STOPPED, ERROR, STARTING, STOPPING}

BotIds == 1..MaxBots
Tasks == 1..MaxTasks
Pids == PidLow..(PidLow + MaxPid - 1)
Sockets == 1..MaxSockets
\* str(e) of an exception raised by a failing store operation
DbErrors == {<<"connection", "refused">>}

VARIABLES
    bots,     \* db.bots: bot id -> stored record
    logs,     \* db.logs: the stored LogEntry documents, in insertion order
    now,      \* datetime.utcnow()
    nextId,   \* the next fresh bot id (uuid4)
    calls,    \* requests accepted so far
    fails,    \* store failures injected so far
    tasks,    \* the requests in flight: one coroutine each
    active_connections,  \* manager.active_connections: the accepted websockets
    sockets,  \* the websocket_endpoint coroutines and their clients
    exited    \* the pids whose process has exited

\* the websocket side and the operating system's process table
wsvars == <<active_connections, sockets, exited>>

vars == <<bots, logs, now, nextId, calls, fails, tasks, wsvars>>

(* ------------------------------ models --------------------------------- *)
\* Bot(**bot_data.dict()): a new record
Bot(name) ==
    [name |-> name, status |-> STOPPED, pid |-> None,
     last_started |-> None, last_stopped |-> None]

\* the value of a task's local `bot` before get_bot_by_id has returned one
NoBot == [name |-> "", status |-> "", pid |-> None,
          last_started |-> None, last_stopped |-> None]

LogEntry(bot_id, level, message, source, timestamp) ==
    [bot_id |-> bot_id, level |-> level, message |-> message,
     source |-> source, timestamp |-> timestamp]

HTTPException(status_code, detail) ==
    [kind |-> "http", status_code |-> status_code, detail |-> detail, pid |-> None]

DetailNotFound == <<"Bot", "not", "found">>
DetailAlreadyRunning == <<"Bot", "is", "already", "running">>
DetailNotRunning == <<"Bot", "is", "not", "running">>
DetailFailedStart(e) == <<"Failed", "to", "start", "bot:">> \o e
DetailFailedStop(e) == <<"Failed", "to", "stop", "bot:">> \o e

NotFound == HTTPException(404, DetailNotFound)
AlreadyRunning == HTTPException(400, DetailAlreadyRunning)
NotRunning == HTTPException(400, DetailNotRunning)

\* an exception no handler catches: the framework answers 500
InternalError == [kind |-> "error", status_code |-> 500, detail |-> <<>>, pid |-> None]
NoResult == [kind |-> "none", status_code |-> 0, detail |-> <<>>, pid |-> None]
Ok(pid) == [kind |-> "ok", status_code |-> 200, detail |-> <<>>, pid |-> pid]

\* `sub in s` on strings, the strings taken word by word
Contains(s, sub) ==
    \E i \in 0..(Len(s) - Len(sub)) : SubSeq(s, i + 1, i + Len(sub)) = sub

(* ------------------------- utility functions --------------------------- *)
\* get_bot_by_id: the stored record, or none
Exists(b, bot_id) == bot_id \in DOMAIN b

\* an update_one with upsert: a filter that matches no document inserts one
update_bot_status_Upsert(b, bot_id, status, pid, t) ==
    [i \in DOMAIN b \cup {bot_id} |->
        IF i = bot_id
        THEN [status |-> status, pid |-> pid, last_started |-> None,
              last_stopped |-> None, name |-> ""]
        ELSE b[i]]

\* an update_bot_status that does not clear the pid of a Stopped bot
update_bot_status_KeepPid(b, bot_id, status, pid, t) ==
    IF ~Exists(b, bot_id) THEN b
    ELSE LET r1 == [b[bot_id] EXCEPT !.status = status]
             r2 == IF pid # None THEN [r1 EXCEPT !.pid = pid] ELSE r1
         IN  [b EXCEPT ![bot_id] =
                IF status = RUNNING THEN [r2 EXCEPT !.last_started = t]
                ELSE IF status = STOPPED THEN [r2 EXCEPT !.last_stopped = t]
                ELSE r2]

\* update_bot_status: update_one({"id": bot_id}, {"$set": update_data});
\* a filter that matches no document updates nothing
update_bot_status(b, bot_id, status, pid, t) ==
    IF ~Exists(b, bot_id) THEN b
    ELSE LET r1 == [b[bot_id] EXCEPT !.status = status]
             r2 == IF pid # None THEN [r1 EXCEPT !.pid = pid] ELSE r1
             r3 == IF status = RUNNING THEN [r2 EXCEPT !.last_started = t]
                   ELSE IF status = STOPPED
                        THEN [r2 EXCEPT !.last_stopped = t, !.pid = None]
                        ELSE r2
         IN  [b EXCEPT ![bot_id] = r3]

\* log_message: insert_one(log_entry.dict()), then the broadcast
log_message(l, bot_id, level, message, source, t) ==
    Append(l, LogEntry(bot_id, level, message, source, t))

(* ------------------------------- tasks --------------------------------- *)
\* A request in flight.  op, id and arg are the request; pc is the await the
\* coroutine is suspended at; site is where restart_bot called from ("try" or
\* "handler"); bot, pid and err are the handler's locals bot, fake_pid and e;
\* bots_data and k are get_bots' list `bots` and its place in the list.
\* Observations kept for the properties: at (the stored record when the
\* request completed), fault (the awaits at which the store failed), starts
\* (the times start_bot was entered) and stop_exc (what stop_bot raised).
Idle ==
    [op |-> "", id |-> 0, arg |-> "", pc |-> "idle", site |-> "top",
     bot |-> NoBot, pid |-> None, err |-> <<>>, result |-> NoResult,
     at |-> NoBot, fault |-> <<>>, starts |-> 0, stop_exc |-> NoResult,
     bots_data |-> <<>>, k |-> 0, limit |-> 0, level |-> "", logs_data |-> <<>>]

Stored(b, bot_id) == IF Exists(b, bot_id) THEN b[bot_id] ELSE NoBot

Set(t, tk) == tasks' = [tasks EXCEPT ![t] = tk]

\* the request completes with res; b is the store as this step leaves it
Finish(tk, res, b) ==
    [tk EXCEPT !.pc = "done", !.result = res, !.at = Stored(b, tk.id),
               !.bot = NoBot, !.pid = None, !.err = <<>>, !.k = 0]

\* a looser match than the handler's: any detail with the word "not"
IsNotRunning_Loose(exc) == Contains(exc.detail, <<"not">>)

\* restart_bot's `"not running" in str(e.detail)`
IsNotRunning(exc) == Contains(exc.detail, <<"not", "running">>)

\* a restart_bot with no handler: the exception reaches the client
RaiseHTTP_Propagate(tk, exc, b) == Finish(tk, exc, b)

\* an HTTPException leaves start_bot or stop_bot: restart_bot's handler
\* catches it when it was raised inside its try block
RaiseHTTP(tk, exc, b) ==
    IF tk.op = "restart" /\ tk.site = "try"
    THEN IF IsNotRunning(exc)
         THEN [tk EXCEPT !.pc = "start_read", !.site = "handler",
                         !.starts = @ + 1]
         ELSE Finish(tk, exc, b)
    ELSE Finish(tk, exc, b)

RaiseFromStop(tk, exc, b) == RaiseHTTP([tk EXCEPT !.stop_exc = exc], exc, b)

\* any other exception: no handler of the application catches it
RaiseError(tk, b) == Finish(tk, InternalError, b)

\* stop_bot returns to its caller: the client, restart_bot or delete_bot
ReturnFromStop(tk, b) ==
    IF tk.op = "restart" THEN [tk EXCEPT !.pc = "restart_sleep"]
    ELSE IF tk.op = "delete" THEN [tk EXCEPT !.pc = "delete_one"]
    ELSE Finish(tk, Ok(None), b)

\* start_bot returns {"message": ..., "pid": fake_pid}
ReturnFromStart(tk, b) == Finish(tk, Ok(tk.pid), b)

\* a store operation inside a try block raises: control moves to the except
\* clause, suspended at its first await
Fault(t, excpc) ==
    /\ fails < MaxFail
    /\ \E e \in DbErrors :
        Set(t, [tasks[t] EXCEPT !.pc = excpc, !.err = e,
                                !.fault = Append(@, tasks[t].pc)])
    /\ fails' = fails + 1
    /\ UNCHANGED <<bots, logs, now, nextId, calls, wsvars>>

\* a store operation outside every try block (or inside an except clause)
\* raises: the request ends with the unhandled exception
FaultUnhandled(t) ==
    /\ fails < MaxFail
    /\ Set(t, RaiseError([tasks[t] EXCEPT !.fault = Append(@, tasks[t].pc)], bots))
    /\ fails' = fails + 1
    /\ UNCHANGED <<bots, logs, now, nextId, calls, wsvars>>

(* ------------------------------ start_bot ------------------------------ *)
StartRead(t) ==
    LET tk == tasks[t] IN
    /\ tk.pc = "start_read"
    /\ Set(t, IF ~Exists(bots, tk.id) THEN RaiseHTTP(tk, NotFound, bots)
              ELSE IF bots[tk.id].status = RUNNING
                   THEN RaiseHTTP(tk, AlreadyRunning, bots)
                   ELSE [tk EXCEPT !.pc = "start_upd1", !.bot = bots[tk.id]])
    /\ UNCHANGED <<bots, logs, now, nextId, calls, fails, wsvars>>

StartUpd1(t) ==
    LET tk == tasks[t] IN
    /\ tk.pc = "start_upd1"
    /\ \/ /\ bots' = update_bot_status(bots, tk.id, STARTING, None, now)
          /\ Set(t, [tk EXCEPT !.pc = "start_log1"])
          /\ UNCHANGED <<logs, now, nextId, calls, fails, wsvars>>
       \/ Fault(t, "start_exc_upd")

\* log_message(...), then fake_pid = random.randint(1000, 9999)
StartLog1(t) ==
    LET tk == tasks[t] IN
    /\ tk.pc = "start_log1"
    /\ \/ /\ logs' = log_message(logs, tk.id, "INFO",
                                 <<"Starting bot", tk.bot.name>>, "api", now)
          /\ now' = now + 1
          /\ \E fake_pid \in Pids :
                Set(t, [tk EXCEPT !.pc = "start_upd2", !.pid = fake_pid])
          /\ UNCHANGED <<bots, nextId, calls, fails, wsvars>>
       \/ Fault(t, "start_exc_upd")

StartUpd2(t) ==
    LET tk == tasks[t] IN
    /\ tk.pc = "start_upd2"
    /\ \/ /\ bots' = update_bot_status(bots, tk.id, RUNNING, tk.pid, now)
          /\ now' = now + 1
          /\ Set(t, [tk EXCEPT !.pc = "start_log2"])
          /\ UNCHANGED <<logs, nextId, calls, fails, wsvars>>
       \/ Fault(t, "start_exc_upd")

StartLog2(t) ==
    LET tk == tasks[t] IN
    /\ tk.pc = "start_log2"
    /\ \/ /\ logs' = log_message(logs, tk.id, "INFO",
                                 <<"started successfully", tk.bot.name, tk.pid>>,
                                 "system", now)
          /\ now' = now + 1
          /\ Set(t, ReturnFromStart(tk, bots))
          /\ UNCHANGED <<bots, nextId, calls, fails, wsvars>>
       \/ Fault(t, "start_exc_upd")

\* except Exception as e: update_bot_status(bot_id, BotStatus.ERROR)
StartExcUpd(t) ==
    LET tk == tasks[t] IN
    /\ tk.pc = "start_exc_upd"
    /\ \/ /\ bots' = update_bot_status(bots, tk.id, ERROR, None, now)
          /\ Set(t, [tk EXCEPT !.pc = "start_exc_log"])
          /\ UNCHANGED <<logs, now, nextId, calls, fails, wsvars>>
       \/ FaultUnhandled(t)

\* an except clause that logs the failure and then tries the start again
StartExcLog_Retry(t) ==
    LET tk == tasks[t] IN
    /\ tk.pc = "start_exc_log"
    /\ logs' = log_message(logs, tk.id, "ERROR",
                           <<"Failed to start bot">> \o tk.err, "system", now)
    /\ now' = now + 1
    /\ Set(t, IF tk.starts < 2
              THEN [tk EXCEPT !.pc = "start_read", !.starts = @ + 1]
              ELSE RaiseHTTP(tk, HTTPException(500, DetailFailedStart(tk.err)), bots))
    /\ UNCHANGED <<bots, nextId, calls, fails, wsvars>>

\* log_message(ERROR, ...), then raise HTTPException(500, "Failed to start ...")
StartExcLog(t) ==
    LET tk == tasks[t] IN
    /\ tk.pc = "start_exc_log"
    /\ \/ /\ logs' = log_message(logs, tk.id, "ERROR",
                                 <<"Failed to start bot">> \o tk.err, "system", now)
          /\ now' = now + 1
          /\ Set(t, RaiseHTTP(tk, HTTPException(500, DetailFailedStart(tk.err)), bots))
          /\ UNCHANGED <<bots, nextId, calls, fails, wsvars>>
       \/ FaultUnhandled(t)

(* ------------------------------ stop_bot ------------------------------- *)
\* a stop_bot that refuses only a Stopped bot
StopRead_OnlyStopped(t) ==
    LET tk == tasks[t] IN
    /\ tk.pc = "stop_read"
    /\ Set(t, IF ~Exists(bots, tk.id) THEN RaiseFromStop(tk, NotFound, bots)
              ELSE IF bots[tk.id].status = STOPPED
                   THEN RaiseFromStop(tk, NotRunning, bots)
                   ELSE [tk EXCEPT !.pc = "stop_upd1", !.bot = bots[tk.id]])
    /\ UNCHANGED <<bots, logs, now, nextId, calls, fails, wsvars>>

StopRead(t) ==
    LET tk == tasks[t] IN
    /\ tk.pc = "stop_read"
    /\ Set(t, IF ~Exists(bots, tk.id) THEN RaiseFromStop(tk, NotFound, bots)
              ELSE IF bots[tk.id].status # RUNNING
                   THEN RaiseFromStop(tk, NotRunning, bots)
                   ELSE [tk EXCEPT !.pc = "stop_upd1", !.bot = bots[tk.id]])
    /\ UNCHANGED <<bots, logs, now, nextId, calls, fails, wsvars>>

StopUpd1(t) ==
    LET tk == tasks[t] IN
    /\ tk.pc = "stop_upd1"
    /\ \/ /\ bots' = update_bot_status(bots, tk.id, STOPPING, None, now)
          /\ Set(t, [tk EXCEPT !.pc = "stop_log1"])
          /\ UNCHANGED <<logs, now, nextId, calls, fails, wsvars>>
       \/ Fault(t, "stop_exc_upd")

\* log_message(...); `if bot.pid: pass` stops no process
StopLog1(t) ==
    LET tk == tasks[t] IN
    /\ tk.pc = "stop_log1"
    /\ \/ /\ logs' = log_message(logs, tk.id, "INFO",
                                 <<"Stopping bot", tk.bot.name>>, "api", now)
          /\ now' = now + 1
          /\ Set(t, [tk EXCEPT !.pc = "stop_upd2"])
          /\ UNCHANGED <<bots, nextId, calls, fails, wsvars>>
       \/ Fault(t, "stop_exc_upd")

StopUpd2(t) ==
    LET tk == tasks[t] IN
    /\ tk.pc = "stop_upd2"
    /\ \/ /\ bots' = update_bot_status(bots, tk.id, STOPPED, None, now)
          /\ now' = now + 1
          /\ Set(t, [tk EXCEPT !.pc = "stop_log2"])
          /\ UNCHANGED <<logs, nextId, calls, fails, wsvars>>
       \/ Fault(t, "stop_exc_upd")

StopLog2(t) ==
    LET tk == tasks[t] IN
    /\ tk.pc = "stop_log2"
    /\ \/ /\ logs' = log_message(logs, tk.id, "INFO",
                                 <<"stopped successfully", tk.bot.name>>,
                                 "system", now)
          /\ now' = now + 1
          /\ Set(t, ReturnFromStop(tk, bots))
          /\ UNCHANGED <<bots, nextId, calls, fails, wsvars>>
       \/ Fault(t, "stop_exc_upd")

StopExcUpd(t) ==
    LET tk == tasks[t] IN
    /\ tk.pc = "stop_exc_upd"
    /\ \/ /\ bots' = update_bot_status(bots, tk.id, ERROR, None, now)
          /\ Set(t, [tk EXCEPT !.pc = "stop_exc_log"])
          /\ UNCHANGED <<logs, now, nextId, calls, fails, wsvars>>
       \/ FaultUnhandled(t)

StopExcLog(t) ==
    LET tk == tasks[t] IN
    /\ tk.pc = "stop_exc_log"
    /\ \/ /\ logs' = log_message(logs, tk.id, "ERROR",
                                 <<"Failed to stop bot">> \o tk.err, "system", now)
          /\ now' = now + 1
          /\ Set(t, RaiseFromStop(tk, HTTPException(500, DetailFailedStop(tk.err)), bots))
          /\ UNCHANGED <<bots, nextId, calls, fails, wsvars>>
       \/ FaultUnhandled(t)

(* ----------------------------- restart_bot ----------------------------- *)
\* await asyncio.sleep(1), then return await start_bot(bot_id)
RestartSleep(t) ==
    LET tk == tasks[t] IN
    /\ tk.pc = "restart_sleep"
    /\ Set(t, [tk EXCEPT !.pc = "start_read", !.starts = @ + 1])
    /\ UNCHANGED <<bots, logs, now, nextId, calls, fails, wsvars>>

(* ------------------------------- get_bot ------------------------------- *)
\* get_process_stats(pid) of a pid the program made up: the operating system
\* may hold a process of that number (stats), hold none (None), or refuse
\* the query (an exception other than NoSuchProcess)
Samples == {"stats", "none", "raise"}

\* what get_process_stats(pid) can answer: None once the process has exited
get_process_stats(pid) == IF pid \in exited THEN {"none"} ELSE Samples

GetRead(t) ==
    LET tk == tasks[t] IN
    /\ tk.pc = "get_read"
    /\ IF ~Exists(bots, tk.id) THEN Set(t, Finish(tk, NotFound, bots))
       ELSE IF bots[tk.id].status = RUNNING /\ bots[tk.id].pid # None
            THEN \E stats \in get_process_stats(bots[tk.id].pid) :
                    Set(t, IF stats = "stats" THEN Finish(tk, Ok(None), bots)
                           ELSE IF stats = "none"
                                THEN [tk EXCEPT !.pc = "get_upd", !.bot = bots[tk.id]]
                                ELSE RaiseError(tk, bots))
            ELSE Set(t, Finish(tk, Ok(None), bots))
    /\ UNCHANGED <<bots, logs, now, nextId, calls, fails, wsvars>>

\* await update_bot_status(bot.id, BotStatus.STOPPED); bot.status = STOPPED
GetUpd(t) ==
    LET tk == tasks[t] IN
    /\ tk.pc = "get_upd"
    /\ bots' = update_bot_status(bots, tk.id, STOPPED, None, now)
    /\ now' = now + 1
    /\ Set(t, Finish(tk, Ok(None), bots'))
    /\ UNCHANGED <<logs, nextId, calls, fails, wsvars>>

(* ------------------------------- get_bots ------------------------------ *)
\* db.bots.find(query).to_list(n): the records in the store's order, each
\* with its id; status = "" is the empty query
RECURSIVE FindBots(_, _, _)
FindBots(b, i, status) ==
    IF i > MaxBots THEN <<>>
    ELSE (IF Exists(b, i) /\ (status = "" \/ b[i].status = status)
          THEN <<[id |-> i, bot |-> b[i]]>>
          ELSE <<>>) \o FindBots(b, i + 1, status)

\* the for loop over the records read, from place k on, up to its next await:
\* a record that is Running with a pid is sampled; with stats the loop goes
\* on, with None it stops at the await of update_bot_status, and an exception
\* of psutil leaves the loop.  The result is where the loop stopped and why.
RECURSIVE Sampling(_, _)
Sampling(bots_data, k) ==
    IF k > Len(bots_data) THEN {[kind |-> "end", k |-> k]}
    ELSE LET bot == bots_data[k].bot IN
         IF bot.status = RUNNING /\ bot.pid # None
         THEN UNION {IF stats = "stats" THEN Sampling(bots_data, k + 1)
                     ELSE {[kind |-> stats, k |-> k]} :
                     stats \in get_process_stats(bot.pid)}
         ELSE Sampling(bots_data, k + 1)

\* get_bots goes on from the outcome of its loop
GetsAdvance(tk, out, b) ==
    IF out.kind = "none" THEN [tk EXCEPT !.pc = "gets_upd", !.k = out.k]
    ELSE IF out.kind = "raise" THEN RaiseError(tk, b)
    ELSE Finish(tk, Ok(None), b)

\* bots_data = await db.bots.find().to_list(1000), then the loop
GetsFind(t) ==
    LET tk == tasks[t]
        bots_data == FindBots(bots, 1, "") IN
    /\ tk.pc = "gets_find"
    /\ \E out \in Sampling(bots_data, 1) :
        Set(t, GetsAdvance([tk EXCEPT !.bots_data = bots_data], out, bots))
    /\ UNCHANGED <<bots, logs, now, nextId, calls, fails, wsvars>>

\* await update_bot_status(bot.id, BotStatus.STOPPED); bot.status = STOPPED;
\* then the loop goes on with the next record
GetsUpd(t) ==
    LET tk == tasks[t]
        tk1 == [tk EXCEPT !.bots_data[tk.k].bot.status = STOPPED] IN
    /\ tk.pc = "gets_upd"
    /\ bots' = update_bot_status(bots, tk.bots_data[tk.k].id, STOPPED, None, now)
    /\ now' = now + 1
    /\ \E out \in Sampling(tk.bots_data, tk.k + 1) :
        Set(t, GetsAdvance(tk1, out, bots'))
    /\ UNCHANGED <<logs, nextId, calls, fails, wsvars>>

(* ------------------------------ create_bot ----------------------------- *)
CreateInsert(t) ==
    LET tk == tasks[t] IN
    /\ tk.pc = "create_insert"
    /\ bots' = [i \in DOMAIN bots \cup {tk.id} |->
                    IF i = tk.id THEN Bot(tk.arg) ELSE bots[i]]
    /\ Set(t, [tk EXCEPT !.pc = "create_log"])
    /\ UNCHANGED <<logs, now, nextId, calls, fails, wsvars>>

CreateLog(t) ==
    LET tk == tasks[t] IN
    /\ tk.pc = "create_log"
    /\ logs' = log_message(logs, tk.id, "INFO", <<"created", tk.arg>>, "api", now)
    /\ now' = now + 1
    /\ Set(t, Finish(tk, Ok(None), bots))
    /\ UNCHANGED <<bots, nextId, calls, fails, wsvars>>

(* ------------------------------ update_bot ----------------------------- *)
\* update_data = {k: v for k, v in bot_update.dict().items() if v is not None};
\* the request carries a name or no field at all (arg = "")
UpdateRead(t) ==
    LET tk == tasks[t] IN
    /\ tk.pc = "update_read"
    /\ Set(t, IF ~Exists(bots, tk.id) THEN Finish(tk, NotFound, bots)
              ELSE IF tk.arg # ""
                   THEN [tk EXCEPT !.pc = "update_set", !.bot = bots[tk.id]]
                   ELSE [tk EXCEPT !.pc = "update_reread", !.bot = bots[tk.id]])
    /\ UNCHANGED <<bots, logs, now, nextId, calls, fails, wsvars>>

\* an update that replaces the document by a new Bot of the given name
UpdateSet_Replace(t) ==
    LET tk == tasks[t] IN
    /\ tk.pc = "update_set"
    /\ bots' = IF Exists(bots, tk.id)
               THEN [bots EXCEPT ![tk.id] = Bot(tk.arg)] ELSE bots
    /\ Set(t, [tk EXCEPT !.pc = "update_log"])
    /\ UNCHANGED <<logs, now, nextId, calls, fails, wsvars>>

UpdateSet(t) ==
    LET tk == tasks[t] IN
    /\ tk.pc = "update_set"
    /\ bots' = IF Exists(bots, tk.id)
               THEN [bots EXCEPT ![tk.id].name = tk.arg] ELSE bots
    /\ Set(t, [tk EXCEPT !.pc = "update_log"])
    /\ UNCHANGED <<logs, now, nextId, calls, fails, wsvars>>

UpdateLog(t) ==
    LET tk == tasks[t] IN
    /\ tk.pc = "update_log"
    /\ logs' = log_message(logs, tk.id, "INFO", <<"updated", tk.bot.name>>, "api", now)
    /\ now' = now + 1
    /\ Set(t, [tk EXCEPT !.pc = "update_reread"])
    /\ UNCHANGED <<bots, nextId, calls, fails, wsvars>>

\* return await get_bot_by_id(bot_id): None fails the response model
UpdateReread(t) ==
    LET tk == tasks[t] IN
    /\ tk.pc = "update_reread"
    /\ Set(t, IF Exists(bots, tk.id) THEN Finish(tk, Ok(None), bots)
              ELSE RaiseError(tk, bots))
    /\ UNCHANGED <<bots, logs, now, nextId, calls, fails, wsvars>>

(* ------------------------------ delete_bot ----------------------------- *)
\* a delete_bot that does not check that the bot exists
DeleteRead_NoCheck(t) ==
    LET tk == tasks[t] IN
    /\ tk.pc = "delete_read"
    /\ Set(t, IF Stored(bots, tk.id).status = RUNNING
              THEN [tk EXCEPT !.pc = "stop_read", !.bot = Stored(bots, tk.id)]
              ELSE [tk EXCEPT !.pc = "delete_one", !.bot = Stored(bots, tk.id)])
    /\ UNCHANGED <<bots, logs, now, nextId, calls, fails, wsvars>>

DeleteRead(t) ==
    LET tk == tasks[t] IN
    /\ tk.pc = "delete_read"
    /\ Set(t, IF ~Exists(bots, tk.id) THEN Finish(tk, NotFound, bots)
              ELSE IF bots[tk.id].status = RUNNING
                   THEN [tk EXCEPT !.pc = "stop_read", !.bot = bots[tk.id]]
                   ELSE [tk EXCEPT !.pc = "delete_one", !.bot = bots[tk.id]])
    /\ UNCHANGED <<bots, logs, now, nextId, calls, fails, wsvars>>

DeleteOne(t) ==
    LET tk == tasks[t] IN
    /\ tk.pc = "delete_one"
    /\ bots' = [i \in DOMAIN bots \ {tk.id} |-> bots[i]]
    /\ Set(t, [tk EXCEPT !.pc = "delete_many"])
    /\ UNCHANGED <<logs, now, nextId, calls, fails, wsvars>>

DeleteMany(t) ==
    LET tk == tasks[t] IN
    /\ tk.pc = "delete_many"
    /\ logs' = SelectSeq(logs, LAMBDA e : e.bot_id # tk.id)
    /\ Set(t, [tk EXCEPT !.pc = "delete_log"])
    /\ UNCHANGED <<bots, now, nextId, calls, fails, wsvars>>

DeleteLog(t) ==
    LET tk == tasks[t] IN
    /\ tk.pc = "delete_log"
    /\ logs' = log_message(logs, tk.id, "INFO", <<"deleted", tk.bot.name>>, "api", now)
    /\ now' = now + 1
    /\ Set(t, Finish(tk, Ok(None), bots))
    /\ UNCHANGED <<bots, nextId, calls, fails, wsvars>>

(* --------------------------- ConnectionManager ------------------------- *)
\* SystemMetrics: the two counts get_system_metrics reads from the store
NoMetrics == [total_bots |-> 0, active_bots |-> 0]

\* json.dumps({"type": ..., "data": {"metrics": ..., "running_bots": ...}})
NoMessage == [type |-> "", metrics |-> NoMetrics, running_bots |-> <<>>]

\* One websocket: its client ("none" before it connects, then "open", then
\* "gone") and the websocket_endpoint coroutine serving it.  pc is the await
\* the coroutine is suspended at; metrics, bots_data, k and bots_with_stats
\* are the locals of the loop body; message, i and connection are
\* broadcast's argument, the place of its for loop in active_connections and
\* the connection it is sending to; err is the exception that ended the
\* coroutine.
\* a websocket and the locals of its endpoint coroutine.  targets, sent and
\* received record what the code does: the connections of
\* active_connections when the broadcast in progress began, those its
\* send_text has succeeded on, and the type of the message the client holds
\* unread
NoSocket ==
    [client |-> "none", pc |-> "closed", metrics |-> NoMetrics,
     bots_data |-> <<>>, k |-> 0, bots_with_stats |-> <<>>,
     message |-> NoMessage, i |-> 0, connection |-> 0, err |-> "",
     targets |-> <<>>, sent |-> {}, received |-> ""]

SetSocket(s, sk) == sockets' = [sockets EXCEPT ![s] = sk]

\* the loop body is over: back to `await asyncio.sleep(5)`
Sleep(sk) ==
    [sk EXCEPT !.pc = "sleep", !.metrics = NoMetrics, !.bots_data = <<>>,
               !.k = 0, !.bots_with_stats = <<>>, !.message = NoMessage,
               !.i = 0, !.connection = 0, !.targets = <<>>, !.sent = {}]

\* an exception other than WebSocketDisconnect leaves websocket_endpoint: the
\* coroutine is over and the server closes the websocket, which stays in
\* active_connections
Dead(sk, err) ==
    [Sleep(sk) EXCEPT !.pc = "dead", !.err = err, !.client = "gone"]

\* list.remove(x): the list without its first x
RECURSIVE Remove(_, _)
Remove(l, x) ==
    IF l = <<>> THEN <<>>
    ELSE IF Head(l) = x THEN Tail(l)
    ELSE <<Head(l)>> \o Remove(Tail(l), x)

InList(l, x) == \E j \in 1..Len(l) : l[j] = x

\* `for connection in self.active_connections`: the list iterator has given
\* out sk.i items; it gives the next one, at which broadcast awaits
\* send_text, or the loop and broadcast are over
Iterate(sk, conns) ==
    IF sk.i < Len(conns)
    THEN [sk EXCEPT !.pc = "ws_send", !.i = sk.i + 1, !.connection = conns[sk.i + 1]]
    ELSE Sleep(sk)

\* connect: await websocket.accept(); active_connections.append(websocket);
\* then the loop's first sleep.  Websockets are numbered as they connect.
Connect(s) ==
    /\ sockets[s].client = "none"
    /\ \A r \in Sockets : r < s => sockets[r].client # "none"
    /\ SetSocket(s, [sockets[s] EXCEPT !.client = "open", !.pc = "sleep"])
    /\ active_connections' = Append(active_connections, s)
    /\ UNCHANGED <<bots, logs, now, nextId, calls, fails, tasks, exited>>

\* the client goes away without a closing handshake
ClientGone(s) ==
    /\ sockets[s].client = "open"
    /\ SetSocket(s, [sockets[s] EXCEPT !.client = "gone"])
    /\ UNCHANGED <<bots, logs, now, nextId, calls, fails, tasks,
                   active_connections, exited>>

\* the client reads the message it holds
ClientRead(s) ==
    /\ sockets[s].client = "open"
    /\ sockets[s].received # ""
    /\ SetSocket(s, [sockets[s] EXCEPT !.received = ""])
    /\ UNCHANGED <<bots, logs, now, nextId, calls, fails, tasks,
                   active_connections, exited>>

\* the process of a pid some record holds exits
ProcessExit(pid) ==
    /\ pid \notin exited
    /\ \E id \in DOMAIN bots : bots[id].pid = pid
    /\ exited' = exited \cup {pid}
    /\ UNCHANGED <<bots, logs, now, nextId, calls, fails, tasks,
                   active_connections, sockets>>

(* -------------------------- websocket_endpoint ------------------------- *)
\* await asyncio.sleep(5) is over; get_system_metrics reads the machine and
\* awaits its first count
WsSleep(s) ==
    /\ sockets[s].pc = "sleep"
    /\ SetSocket(s, [sockets[s] EXCEPT !.pc = "ws_total"])
    /\ UNCHANGED <<bots, logs, now, nextId, calls, fails, tasks,
                   active_connections, exited>>

\* total_bots = await db.bots.count_documents({})
WsTotal(s) ==
    /\ sockets[s].pc = "ws_total"
    /\ SetSocket(s, [sockets[s] EXCEPT !.pc = "ws_active",
                        !.metrics.total_bots = Cardinality(DOMAIN bots)])
    /\ UNCHANGED <<bots, logs, now, nextId, calls, fails, tasks,
                   active_connections, exited>>

\* active_bots = await db.bots.count_documents({"status": "running"})
WsActive(s) ==
    /\ sockets[s].pc = "ws_active"
    /\ SetSocket(s, [sockets[s] EXCEPT !.pc = "ws_find",
                        !.metrics.active_bots =
                            Cardinality({id \in DOMAIN bots : bots[id].status = RUNNING})])
    /\ UNCHANGED <<bots, logs, now, nextId, calls, fails, tasks,
                   active_connections, exited>>

\* the loop over bots_data goes on from its outcome: the records passed since
\* place k0 are in bots_with_stats; at the end of the list the message is
\* built and broadcast begins
WsAdvance(sk, k0, out, conns) ==
    LET passed == [j \in 1..(out.k - k0) |-> sk.bots_data[k0 + j - 1].id]
        running_bots == sk.bots_with_stats \o passed IN
    IF out.kind = "none"
    THEN [sk EXCEPT !.pc = "ws_upd", !.k = out.k, !.bots_with_stats = running_bots]
    ELSE IF out.kind = "raise" THEN Dead(sk, "psutil.Error")
    ELSE Iterate([sk EXCEPT !.bots_with_stats = running_bots,
                            !.message = [type |-> "system_update",
                                         metrics |-> sk.metrics,
                                         running_bots |-> running_bots],
                            !.targets = conns],
                 conns)

\* bots_data = await db.bots.find({"status": "running"}).to_list(100), then
\* the loop
WsFind(s) ==
    LET sk == [sockets[s] EXCEPT !.bots_data = FindBots(bots, 1, RUNNING)] IN
    /\ sockets[s].pc = "ws_find"
    /\ \E out \in Sampling(sk.bots_data, 1) :
        SetSocket(s, WsAdvance(sk, 1, out, active_connections))
    /\ UNCHANGED <<bots, logs, now, nextId, calls, fails, tasks,
                   active_connections, exited>>

\* await update_bot_status(bot.id, BotStatus.STOPPED); continue
WsUpd(s) ==
    LET sk == sockets[s] IN
    /\ sk.pc = "ws_upd"
    /\ bots' = update_bot_status(bots, sk.bots_data[sk.k].id, STOPPED, None, now)
    /\ now' = now + 1
    /\ \E out \in Sampling(sk.bots_data, sk.k + 1) :
        SetSocket(s, WsAdvance(sk, sk.k + 1, out, active_connections))
    /\ UNCHANGED <<logs, nextId, calls, fails, tasks, active_connections, exited>>

\* a send_text that reports success and hands the client nothing
Received_Lost(socks, connection, type) == socks

\* send_text succeeded: the message is with the client
Received(socks, connection, type) ==
    [socks EXCEPT ![connection].received = type]

\* broadcast: await connection.send_text(message) is over.  It fails when the
\* client has gone; `except: self.active_connections.remove(connection)` then
\* raises ValueError when the connection is no longer in the list.  Then the
\* for loop takes its next item.
WsSend(s) ==
    LET sk == sockets[s]
        connection == sk.connection IN
    /\ sk.pc = "ws_send"
    /\ IF sockets[connection].client = "open"
       THEN /\ sockets' = [Received(sockets, connection, sk.message.type)
                               EXCEPT ![s] = Iterate([@ EXCEPT !.sent = @ \cup {connection}],
                                                     active_connections)]
            /\ UNCHANGED active_connections
       ELSE IF InList(active_connections, connection)
            THEN /\ active_connections' = Remove(active_connections, connection)
                 /\ SetSocket(s, Iterate(sk, active_connections'))
            ELSE /\ SetSocket(s, Dead(sk, "ValueError"))
                 /\ UNCHANGED active_connections
    /\ UNCHANGED <<bots, logs, now, nextId, calls, fails, tasks, exited>>

(* ------------------------------ requests ------------------------------- *)
Ops == {"start", "stop", "restart", "get", "update", "delete"}

FirstPc(op) ==
    CASE op = "start" -> "start_read"
      [] op = "stop" -> "stop_read"
      [] op = "restart" -> "stop_read"
      [] op = "get" -> "get_read"
      [] op = "gets" -> "gets_find"
      [] op = "update" -> "update_read"
      [] op = "delete" -> "delete_read"
      [] op = "create" -> "create_insert"
      [] op = "logs" -> "logs_find"

\* the coroutine of a new request, suspended at its first await
NewRequest(op, id, arg) ==
    [Idle EXCEPT !.op = op, !.id = id, !.arg = arg, !.pc = FirstPc(op),
                 !.site = IF op = "restart" THEN "try" ELSE "top",
                 !.starts = IF op = "start" THEN 1 ELSE 0]

Free(t) ==
    /\ tasks[t].pc \in {"idle", "done"}
    /\ \A u \in Tasks : u < t => tasks[u].pc \notin {"idle", "done"}

\* a client sends a request on an existing or unknown bot id
Call(t) ==
    /\ Free(t)
    /\ calls < MaxCalls
    /\ \E op \in Ops, id \in BotIds, arg \in {"", "n2"} :
        /\ arg # "" => op = "update"
        /\ Set(t, NewRequest(op, id, arg))
    /\ calls' = calls + 1
    /\ UNCHANGED <<bots, logs, now, nextId, fails, wsvars>>

\* POST /bots: the new bot gets a fresh id
CallCreate(t) ==
    /\ Free(t)
    /\ calls < MaxCalls
    /\ nextId <= MaxBots
    /\ Set(t, NewRequest("create", nextId, "n1"))
    /\ nextId' = nextId + 1
    /\ calls' = calls + 1
    /\ UNCHANGED <<bots, logs, now, fails, wsvars>>

(* --------------------------- specification ----------------------------- *)
\* the store as one completed create_bot leaves it: one bot, Stopped, and
\* the log entry of its creation
Init ==
    /\ bots = <<Bot("n1")>>
    /\ logs = log_message(<<>>, 1, "INFO", <<"created", "n1">>, "api", 1)
    /\ now = 2
    /\ nextId = 2
    /\ calls = 0
    /\ fails = 0
    /\ tasks = [t \in Tasks |-> Idle]
    /\ active_connections = <<>>
    /\ sockets = [s \in Sockets |-> NoSocket]
    /\ exited = {}

Step(t) ==
    \/ StartRead(t) \/ StartUpd1(t) \/ StartLog1(t) \/ StartUpd2(t)
    \/ StartLog2(t) \/ StartExcUpd(t) \/ StartExcLog(t)
    \/ StopRead(t) \/ StopUpd1(t) \/ StopLog1(t) \/ StopUpd2(t)
    \/ StopLog2(t) \/ StopExcUpd(t) \/ StopExcLog(t)
    \/ RestartSleep(t)
    \/ GetRead(t) \/ GetUpd(t)
    \/ CreateInsert(t) \/ CreateLog(t)
    \/ UpdateRead(t) \/ UpdateSet(t) \/ UpdateLog(t) \/ UpdateReread(t)
    \/ DeleteRead(t) \/ DeleteOne(t) \/ DeleteMany(t) \/ DeleteLog(t)

Next == \E t \in Tasks : Call(t) \/ CallCreate(t) \/ Step(t)

Spec == Init /\ [][Next]_vars

(* ------------------------------ properties ---------------------------- *)
Done(t) == tasks[t].pc = "done"
Succeeded(t) == Done(t) /\ tasks[t].result.kind = "ok"

\* task t takes this step
Steps(t) == tasks'[t] # tasks[t]

\* C1: when start(botId) returns success, the stored status is Running, the
\* stored pid is set and is the pid returned, and last_started is set.
C1_StartSuccess ==
    \A t \in Tasks :
        (Succeeded(t) /\ tasks[t].op = "start") =>
            /\ tasks[t].at.status = RUNNING
            /\ tasks[t].at.pid # None
            /\ tasks[t].at.pid = tasks[t].result.pid
            /\ tasks[t].at.last_started # None

\* C2: when stop(botId) returns success, the stored status is Stopped, the
\* stored pid is null and last_stopped is set.
C2_StopSuccess ==
    \A t \in Tasks :
        (Succeeded(t) /\ tasks[t].op = "stop") =>
            /\ tasks[t].at.status = STOPPED
            /\ tasks[t].at.pid = None
            /\ tasks[t].at.last_stopped # None

\* C3: a start that read status Running or Starting does not go on to write:
\* no start request is past its status check holding such a record.
StartBody == {"start_upd1", "start_log1", "start_upd2", "start_log2",
              "start_exc_upd", "start_exc_log"}

C3_StartRejected ==
    \A t \in Tasks :
        (tasks[t].op = "start" /\ tasks[t].pc \in StartBody) =>
            tasks[t].bot.status \notin {RUNNING, STARTING}

\* C4: the step of stop(botId) that reads an existing bot whose status is not
\* Running ends the request with NotRunning and changes neither the bot
\* records nor the log store.
C4_StopNotRunning ==
    [][\A t \in Tasks :
        (/\ Steps(t)
         /\ tasks[t].op = "stop" /\ tasks[t].pc = "stop_read"
         /\ Exists(bots, tasks[t].id)
         /\ bots[tasks[t].id].status # RUNNING) =>
            /\ tasks'[t].pc = "done"
            /\ tasks'[t].result = NotRunning
            /\ bots' = bots
            /\ logs' = logs]_vars

C4_Witness ==
    \E t \in Tasks :
        /\ Done(t) /\ tasks[t].op = "stop"
        /\ tasks[t].result = NotRunning
        /\ tasks[t].at.status = STARTING

\* C5: get, update, delete, start, stop and restart addressed to an id with
\* no stored record end with NotFound at their first read and change neither
\* the bot records nor the log store.
C5_NotFound ==
    [][\A t \in Tasks :
        (/\ Steps(t)
         /\ tasks[t].op \in Ops /\ tasks[t].pc = FirstPc(tasks[t].op)
         /\ tasks[t].starts <= 1 /\ tasks[t].site # "handler"
         /\ ~Exists(bots, tasks[t].id)) =>
            /\ tasks'[t].pc = "done"
            /\ tasks'[t].result = NotFound
            /\ bots' = bots
            /\ logs' = logs]_vars

C5_Witness ==
    \E t \in Tasks :
        /\ Done(t) /\ tasks[t].op = "restart"
        /\ tasks[t].result = NotFound
        /\ tasks[t].starts = 0

C8_OneSpawn ==
    \A t, u \in Tasks :
        (/\ t # u
         /\ tasks[t].op = "start" /\ tasks[u].op = "start"
         /\ tasks[t].id = tasks[u].id) =>
            ~(tasks[t].pid # None /\ tasks[u].pid # None)

\* C9: lifecycle operations on one bot are serialized: no two requests are at
\* once between their first status write and their final status write.
Region == {"start_log1", "start_upd2", "stop_log1", "stop_upd2"}

C9_Serialized ==
    \A t, u \in Tasks :
        (t # u /\ tasks[t].id = tasks[u].id) =>
            ~(tasks[t].pc \in Region /\ tasks[u].pc \in Region)

\* C10: a stored record holds a pid if and only if its status is Running or
\* Stopping.
C10_PidIffRunning ==
    \A id \in DOMAIN bots :
        (bots[id].pid # None) <=> (bots[id].status \in {RUNNING, STOPPING})

(* ------------------- restart against start, side by side --------------- *)
\* Two bots just created alike and both Stopped; request 1 is start on bot 1,
\* request 2 is restart on bot 2.  The two handlers touch different bot ids,
\* so each runs as if alone, and their outcomes can be compared.
InitRestart ==
    /\ bots = <<Bot("n1"), Bot("n1")>>
    /\ logs = log_message(log_message(<<>>, 1, "INFO", <<"created", "n1">>, "api", 1),
                          2, "INFO", <<"created", "n1">>, "api", 2)
    /\ now = 3
    /\ nextId = 3
    /\ calls = 2
    /\ fails = 0
    /\ tasks = [t \in Tasks |-> IF t = 1 THEN NewRequest("start", 1, "")
                                ELSE IF t = 2 THEN NewRequest("restart", 2, "")
                                ELSE Idle]
    /\ active_connections = <<>>
    /\ sockets = [s \in Sockets |-> NoSocket]
    /\ exited = {}

NextRestart ==
    \E t \in Tasks :
        \/ StopRead(t)
        \/ StartRead(t) \/ StartUpd1(t) \/ StartLog1(t) \/ StartUpd2(t)
        \/ StartLog2(t) \/ StartExcUpd(t) \/ StartExcLog(t)

SpecRestart == InitRestart /\ [][NextRestart]_vars

\* what a client can tell of a bot: its record without the clock readings,
\* and its log entries without their bot id and timestamp
RecordView(r) ==
    [name |-> r.name, status |-> r.status, pid |-> r.pid,
     started |-> r.last_started # None, stopped |-> r.last_stopped # None]

RECURSIVE LogView(_, _)
LogView(l, bot_id) ==
    IF l = <<>> THEN <<>>
    ELSE LET e == Head(l) IN
         (IF e.bot_id = bot_id
          THEN <<[level |-> e.level, message |-> e.message, source |-> e.source]>>
          ELSE <<>>) \o LogView(Tail(l), bot_id)

\* a result or a record with the pid left out (whether one is set is kept)
ResultKind(res) ==
    [kind |-> res.kind, status_code |-> res.status_code, detail |-> res.detail,
     has_pid |-> res.pid # None]

RecordKind(r) ==
    [name |-> r.name, status |-> r.status, has_pid |-> r.pid # None,
     started |-> r.last_started # None, stopped |-> r.last_stopped # None]

\* C6: restart on a Stopped bot ends as start on a like bot ends: given the
\* same store failures, the two requests leave the same kind of record and
\* return the same kind of result, and given the same pid drawn as well they
\* leave the same record and the same log entries and return the same
\* result; the inner stop's NotRunning is not what restart returns.
C6_RestartAsStart ==
    (Done(1) /\ Done(2) /\ tasks[1].fault = tasks[2].fault) =>
        /\ tasks[2].stop_exc = NotRunning
        /\ tasks[2].result # NotRunning
        /\ ResultKind(tasks[2].result) = ResultKind(tasks[1].result)
        /\ RecordKind(bots[2]) = RecordKind(bots[1])
        /\ Len(LogView(logs, 2)) = Len(LogView(logs, 1))
        /\ bots[1].pid = bots[2].pid =>
            /\ tasks[2].result = tasks[1].result
            /\ RecordView(bots[2]) = RecordView(bots[1])
            /\ LogView(logs, 2) = LogView(logs, 1)

C6_Witness ==
    /\ Done(1) /\ Done(2)
    /\ tasks[2].op = "restart" /\ tasks[2].stop_exc = NotRunning
    /\ tasks[2].result.kind = "ok" /\ tasks[1].result = tasks[2].result
    /\ bots[2].status = RUNNING /\ bots[2].pid = tasks[2].result.pid
    /\ bots[2].last_started # None
    /\ Len(LogView(logs, 2)) = 3

(* ---------------- the websocket side and the reconcilers --------------- *)
\* a client sends GET /bots/{bot_id} or GET /bots
CallRead(t) ==
    /\ Free(t)
    /\ calls < MaxCalls
    /\ \/ \E id \in BotIds : Set(t, NewRequest("get", id, ""))
       \/ Set(t, NewRequest("gets", 0, ""))
    /\ calls' = calls + 1
    /\ UNCHANGED <<bots, logs, now, nextId, fails, wsvars>>

\* the store as create_bot and start_bot on two bots leave it: both Running,
\* each with the pid drawn for it
StartedBots ==
    LET b1 == update_bot_status(<<Bot("n1"), Bot("n1")>>, 1, RUNNING, PidLow, 3)
    IN  update_bot_status(b1, 2, RUNNING, PidLow + 1, 7)

RECURSIVE StartedLogs(_)
StartedLogs(id) ==
    IF id = 0 THEN <<>>
    ELSE LET t == 4 * id - 3
             l1 == log_message(StartedLogs(id - 1), id, "INFO",
                               <<"created", "n1">>, "api", t)
             l2 == log_message(l1, id, "INFO", <<"Starting bot", "n1">>, "api", t + 1)
         IN  log_message(l2, id, "INFO",
                         <<"started successfully", "n1", PidLow + id - 1>>,
                         "system", t + 3)

InitWs ==
    /\ bots = StartedBots
    /\ logs = StartedLogs(2)
    /\ now = 9
    /\ nextId = 3
    /\ calls = 0
    /\ fails = 0
    /\ tasks = [t \in Tasks |-> Idle]
    /\ active_connections = <<>>
    /\ sockets = [s \in Sockets |-> NoSocket]
    /\ exited = {}

NextWs ==
    \/ \E s \in Sockets :
        \/ Connect(s) \/ ClientGone(s) \/ ClientRead(s)
        \/ WsSleep(s) \/ WsTotal(s) \/ WsActive(s)
        \/ WsFind(s) \/ WsUpd(s) \/ WsSend(s)
    \/ \E pid \in Pids : ProcessExit(pid)

\* the clients, their loops and the processes, with no request
SpecWs == InitWs /\ [][NextWs]_vars

\* the event loop resumes a coroutine whose await is over: the steps of a
\* connection's loop are taken when they can be; clients connect, clients go
\* and processes exit as they please
WsLoop(s) ==
    WsSleep(s) \/ WsTotal(s) \/ WsActive(s) \/ WsFind(s) \/ WsUpd(s) \/ WsSend(s)

SpecWsFair == SpecWs /\ \A s \in Sockets : WF_vars(WsLoop(s))

\* the three reconcilers side by side: the loop of the first websocket, whose
\* client stays, and the requests get_bot and get_bots
NextRecon ==
    \/ Connect(1) \/ WsSleep(1) \/ WsTotal(1) \/ WsActive(1)
    \/ WsFind(1) \/ WsUpd(1) \/ WsSend(1)
    \/ \E pid \in Pids : ProcessExit(pid)
    \/ \E t \in Tasks :
        \/ CallRead(t)
        \/ GetRead(t) \/ GetUpd(t)
        \/ GetsFind(t) \/ GetsUpd(t)

SpecRecon == InitWs /\ [][NextRecon]_vars

(* ------------------------- the status state machine -------------------- *)
\* the stored status of bot id changes from status a to status b in this step
Moves(id, a, b) ==
    /\ Exists(bots, id) /\ Exists(bots', id)
    /\ bots[id].status = a /\ bots'[id].status = b

\* C11: no bot's stored status changes directly from Stopped to Stopping or
\* directly from Running to Starting.
C11_NoDirectMove ==
    [][\A id \in BotIds :
        /\ ~Moves(id, STOPPED, STOPPING)
        /\ ~Moves(id, RUNNING, STARTING)]_vars

\* C12: a stored status becomes Error only from Starting or Stopping, and the
\* first write of a start that read status Error moves the bot to Starting.
C12_ErrorMoves ==
    [][/\ \A id \in BotIds, a \in BotStatus \ {STARTING, STOPPING, ERROR} :
            ~Moves(id, a, ERROR)
       /\ \A t \in Tasks :
            (/\ Steps(t) /\ tasks[t].pc = "start_upd1"
             /\ tasks[t].bot.status = ERROR
             /\ tasks'[t].pc = "start_log1") =>
                Moves(tasks[t].id, ERROR, STARTING)]_vars

(* ----------------------------- reconciliation -------------------------- *)
\* the record of bot id as a reconciliation write must leave it
Reconciled(id) ==
    Exists(bots, id) =>
        /\ Exists(bots', id)
        /\ bots'[id].status = STOPPED
        /\ bots'[id].pid = None
        /\ bots'[id].last_stopped = now
        /\ bots'[id].last_stopped # None

\* the first record a pass reads is Running and its process has exited
FirstExited(bots_data) ==
    /\ bots_data # <<>>
    /\ bots_data[1].bot.status = RUNNING
    /\ bots_data[1].bot.pid \in exited

\* C13: a reconciler (the periodic loop, get_bot, get_bots) that samples a
\* Running bot whose process has exited goes on to the write for that bot,
\* and the write of a bot sampled as gone leaves its stored record Stopped,
\* with no pid and with last_stopped set.
C13_Reconciles ==
    [][/\ \A t \in Tasks :
            Steps(t) =>
                /\ (tasks[t].pc = "get_upd") => Reconciled(tasks[t].id)
                /\ (tasks[t].pc = "gets_upd") =>
                        Reconciled(tasks[t].bots_data[tasks[t].k].id)
                /\ (/\ tasks[t].pc = "get_read"
                    /\ Exists(bots, tasks[t].id)
                    /\ bots[tasks[t].id].status = RUNNING
                    /\ bots[tasks[t].id].pid \in exited) =>
                        tasks'[t].pc = "get_upd"
                /\ (/\ tasks[t].pc = "gets_find"
                    /\ FirstExited(FindBots(bots, 1, ""))) =>
                        tasks'[t].pc = "gets_upd" /\ tasks'[t].k = 1
       /\ \A s \in Sockets :
            sockets'[s] # sockets[s] =>
                /\ (sockets[s].pc = "ws_upd") =>
                        Reconciled(sockets[s].bots_data[sockets[s].k].id)
                /\ (/\ sockets[s].pc = "ws_find"
                    /\ FirstExited(FindBots(bots, 1, RUNNING))) =>
                        sockets'[s].pc = "ws_upd" /\ sockets'[s].k = 1]_vars

\* get_bots has returned a list with a bot it marked Stopped after a sample,
\* and the stored record of that bot is Stopped with no pid
C13_Witness ==
    \E t \in Tasks :
        /\ Done(t) /\ tasks[t].op = "gets"
        /\ \E k \in 1..Len(tasks[t].bots_data) :
            LET id == tasks[t].bots_data[k].id IN
            /\ tasks[t].bots_data[k].bot.status = STOPPED
            /\ tasks[t].bots_data[k].bot.pid \in exited
            /\ Exists(bots, id)
            /\ bots[id].status = STOPPED /\ bots[id].pid = None
            /\ bots[id].last_stopped # None

\* C14: when get_bot returns after the write that moved its bot from Running
\* to Stopped because the process was gone, the log store holds a warning
\* entry "process exited unexpectedly" for that bot.
C14_ReconcileLogged ==
    [][\A t \in Tasks :
        (/\ Steps(t)
         /\ tasks[t].op = "get" /\ tasks[t].pc = "get_upd"
         /\ tasks'[t].pc = "done"
         /\ Moves(tasks[t].id, RUNNING, STOPPED)) =>
            \E j \in 1..Len(logs') :
                /\ logs'[j].bot_id = tasks[t].id
                /\ logs'[j].level = "WARNING"
                /\ logs'[j].message = <<"process exited unexpectedly">>]_vars

\* an exception has ended the loop of some connection
LoopEnded == \E s \in Sockets : sockets[s].pc = "dead"

\* C15: a Running bot whose process has exited is eventually stored as
\* Stopped with its pid cleared, whether or not a client ever connects (no
\* request is made); the runs in which an exception ends a loop are left to
\* C16.
C15_EventuallyStopped ==
    \A id \in {1, 2} :
        (bots[id].status = RUNNING /\ bots[id].pid \in exited) ~>
            ((bots[id].status = STOPPED /\ bots[id].pid = None) \/ LoopEnded)

\* C16: a sampling error for one bot does not end the pass nor the loop: no
\* connection's loop is ever ended by an exception of the sampler.
C16_PassSurvives ==
    \A s \in Sockets :
        ~(sockets[s].pc = "dead" /\ sockets[s].err = "psutil.Error")

\* C17: get_bot's reconciliation write does not mark Stopped a bot that is
\* stored as Running with a pid other than the one it sampled as gone.
C17_SamePid ==
    [][\A t \in Tasks :
        (/\ Steps(t)
         /\ tasks[t].pc = "get_upd"
         /\ Exists(bots, tasks[t].id)
         /\ bots[tasks[t].id].status = RUNNING
         /\ bots[tasks[t].id].pid # tasks[t].bot.pid) =>
            bots'[tasks[t].id] = bots[tasks[t].id]]_vars

(* ------------------------------- failures ------------------------------ *)
StartTry == {"start_upd1", "start_log1", "start_upd2", "start_log2"}

\* C18: a failure inside start_bot's try block (where the spawn is) takes the
\* request to the except clause; the clause's write sets the bot's status to
\* Error; its log_message records an ERROR entry for the bot, after which the
\* request ends with the failure (500, "Failed to start bot: ...") without
\* entering start_bot again.
C18_StartFailure ==
    [][\A t \in Tasks :
        Steps(t) =>
            /\ (tasks[t].pc \in StartTry /\ tasks'[t].fault # tasks[t].fault) =>
                    /\ tasks'[t].pc = "start_exc_upd"
                    /\ tasks'[t].starts = tasks[t].starts
            /\ (tasks[t].pc = "start_exc_upd" /\ tasks'[t].fault = tasks[t].fault) =>
                    /\ tasks'[t].pc = "start_exc_log"
                    /\ tasks'[t].starts = tasks[t].starts
                    /\ Exists(bots, tasks[t].id) =>
                            bots'[tasks[t].id].status = ERROR
            /\ (tasks[t].pc = "start_exc_log" /\ tasks'[t].fault = tasks[t].fault) =>
                    /\ Len(logs') = Len(logs) + 1
                    /\ logs'[Len(logs')].bot_id = tasks[t].id
                    /\ logs'[Len(logs')].level = "ERROR"
                    /\ tasks'[t].pc = "done"
                    /\ tasks'[t].result =
                            HTTPException(500, DetailFailedStart(tasks[t].err))
                    /\ tasks'[t].starts = tasks[t].starts]_vars

\* a start whose write of the pid failed has ended with 500, the bot stored
\* as Error and an ERROR entry in the log store
C18_Witness ==
    \E t \in Tasks :
        /\ Done(t) /\ tasks[t].op = "start"
        /\ tasks[t].fault = <<"start_upd2">>
        /\ tasks[t].result.kind = "http" /\ tasks[t].result.status_code = 500
        /\ tasks[t].at.status = ERROR
        /\ tasks[t].starts = 1
        /\ \E j \in 1..Len(logs) :
            logs[j].bot_id = tasks[t].id /\ logs[j].level = "ERROR"

\* C19: a start whose only failure was in the log_message after Running was
\* written, and a stop whose only failure was in the log_message after
\* Stopped was written, return success.
C19_LogFailureSwallowed ==
    \A t \in Tasks :
        (/\ Done(t)
         /\ \/ tasks[t].op = "start" /\ tasks[t].fault = <<"start_log2">>
            \/ tasks[t].op = "stop" /\ tasks[t].fault = <<"stop_log2">>) =>
                tasks[t].result.kind = "ok"

(* ------------------------------- broadcast ----------------------------- *)
\* C20: a failing send never raises out of broadcast nor ends the coroutine
\* that called it: no connection's loop is ended by the ValueError of
\* active_connections.remove.
C20_BroadcastNeverRaises ==
    \A s \in Sockets :
        ~(sockets[s].pc = "dead" /\ sockets[s].err = "ValueError")

(* -------------------------------- logging ------------------------------ *)
\* C21: when get_bots returns a list in which it marked a bot Stopped (it
\* changed that bot's stored status), the log store holds an entry for that
\* bot written at or after the change.
C21_StatusChangeLogged ==
    \A t \in Tasks :
        (Done(t) /\ tasks[t].op = "gets") =>
            \A k \in 1..Len(tasks[t].bots_data) :
                LET id == tasks[t].bots_data[k].id IN
                (/\ tasks[t].bots_data[k].bot.status = STOPPED
                 /\ tasks[t].bots_data[k].bot.pid # None
                 /\ Exists(bots, id)) =>
                    \E j \in 1..Len(logs) :
                        /\ logs[j].bot_id = id
                        /\ logs[j].timestamp >= bots[id].last_stopped

(* ------------------------ stop_bot and processes ----------------------- *)
\* a client sends POST /bots/{id}/stop
CallStop(t) ==
    /\ Free(t)
    /\ calls < MaxCalls
    /\ \E id \in BotIds : Set(t, NewRequest("stop", id, ""))
    /\ calls' = calls + 1
    /\ UNCHANGED <<bots, logs, now, nextId, fails, wsvars>>

\* stop requests on two Running bots whose processes exit when they choose to
NextStop ==
    \/ \E pid \in Pids : ProcessExit(pid)
    \/ \E t \in Tasks :
        \/ CallStop(t)
        \/ StopRead(t) \/ StopUpd1(t) \/ StopLog1(t) \/ StopUpd2(t)
        \/ StopLog2(t) \/ StopExcUpd(t) \/ StopExcLog(t)

SpecStop == InitWs /\ [][NextStop]_vars

\* C22: when stop_bot returns success on a bot that had a pid, the process of
\* that pid has exited.
C22_StopKills ==
    [][\A t \in Tasks :
        (/\ Steps(t)
         /\ tasks[t].op = "stop"
         /\ tasks[t].pc = "stop_log2"
         /\ tasks[t].bot.pid # None
         /\ tasks'[t].pc = "done"
         /\ tasks'[t].result.kind = "ok") =>
            tasks[t].bot.pid \in exited']_vars

(* --------------------------- periodic update --------------------------- *)
\* the connections whose endpoint coroutine is inside
\* manager.broadcast(system_update)
Publishing == {s \in Sockets : sockets[s].pc = "ws_send"}

\* C23: the system_update of an interval is published by one task: two
\* system_update broadcasts are never in progress at once, however many
\* clients are connected.
C23_OnePublisher == Cardinality(Publishing) <= 1

\* the clients and their loops alone: every sample of a pid may still give
\* statistics, give None or raise
NextClients ==
    \E s \in Sockets :
        \/ Connect(s) \/ ClientGone(s) \/ ClientRead(s)
        \/ WsSleep(s) \/ WsTotal(s) \/ WsActive(s)
        \/ WsFind(s) \/ WsUpd(s) \/ WsSend(s)

SpecClients == InitWs /\ [][NextClients]_vars

SpecClientsFair == SpecClients /\ \A s \in Sockets : WF_vars(WsLoop(s))

\* C24: a client that is connected and holds no unread message gets a
\* system_update, with its metrics and running_bots, or stops being connected;
\* so a client that stays connected gets a first message and keeps getting
\* them after each one it has read.
C24_KeepsReceiving ==
    \A s \in Sockets :
        (sockets[s].client = "open" /\ sockets[s].received = "")
            ~> (sockets[s].received = "system_update" \/ sockets[s].client # "open")

\* both clients are connected and each holds a system_update
C24_Witness ==
    \A s \in Sockets :
        sockets[s].client = "open" /\ sockets[s].received = "system_update"

(* ----------------------------- get_bot_logs ---------------------------- *)
MaxLogs == 4
MaxStamp == 3
MaxLimit == 3

Levels == {"INFO", "ERROR"}

\* db.logs.find(query): query = {"bot_id": bot_id}, with "level" when the
\* level parameter is neither None nor empty
Find(l, bot_id, level) ==
    LET match(e) == e.bot_id = bot_id /\ (level # "" => e.level = level)
    IN SelectSeq(l, match)

Orders(n) ==
    {p \in [1..n -> 1..n] : \A i, j \in 1..n : i # j => p[i] # p[j]}

\* a sort that puts the oldest entry first
Sort_Ascending(l) ==
    {[i \in 1..Len(l) |-> l[p[i]]] :
        p \in {q \in Orders(Len(l)) :
                \A i \in 1..(Len(l) - 1) :
                    l[q[i]].timestamp <= l[q[i + 1]].timestamp}}

\* .sort("timestamp", -1): the orders the store may give, entries of one
\* timestamp in any order
Sort(l) ==
    {[i \in 1..Len(l) |-> l[p[i]]] :
        p \in {q \in Orders(Len(l)) :
                \A i \in 1..(Len(l) - 1) :
                    l[q[i]].timestamp >= l[q[i + 1]].timestamp}}

\* .limit(limit).to_list(limit): a limit of 0 is no limit for the cursor and
\* a length of 0 for to_list
ToList(l, limit) ==
    SubSeq(l, 1, IF limit < Len(l) THEN limit ELSE Len(l))

\* logs_data = await db.logs.find(query).sort(...).limit(limit).to_list(limit);
\* to_list raises ValueError on a negative length
GetLogs(t) ==
    LET tk == tasks[t] IN
    /\ tk.pc = "logs_find"
    /\ IF tk.limit < 0
       THEN Set(t, RaiseError(tk, bots))
       ELSE \E sorted \in Sort(Find(logs, tk.id, tk.level)) :
                Set(t, Finish([tk EXCEPT !.logs_data = ToList(sorted, tk.limit)],
                              Ok(None), bots))
    /\ UNCHANGED <<bots, logs, now, nextId, calls, fails, wsvars>>

\* the log entries a store may hold: LogEntry takes its timestamp when it is
\* built and is inserted after an await, so neither the order of the store
\* nor distinct timestamps are given
Entries ==
    {LogEntry(id, level, <<"m">>, "bot", ts) :
        id \in BotIds, level \in Levels, ts \in 1..MaxStamp}

Stores == UNION {[1..n -> Entries] : n \in 0..MaxLogs}

\* GET /bots/{id}/logs?limit=..&level=.. on any store
InitLogs ==
    /\ bots = <<Bot("n1")>>
    /\ logs \in Stores
    /\ now = MaxStamp + 1
    /\ nextId = 2
    /\ calls = 1
    /\ fails = 0
    /\ \E id \in BotIds, limit \in -1..MaxLimit, level \in Levels \cup {""} :
        tasks = [t \in Tasks |->
                    IF t = 1
                    THEN [NewRequest("logs", id, "") EXCEPT !.limit = limit,
                                                            !.level = level]
                    ELSE Idle]
    /\ active_connections = <<>>
    /\ sockets = [s \in Sockets |-> NoSocket]
    /\ exited = {}

NextLogs == \E t \in Tasks : GetLogs(t)

SpecLogs == InitLogs /\ [][NextLogs]_vars

Count(l, e) == Cardinality({j \in 1..Len(l) : l[j] = e})

\* C25: a list get_bot_logs returns has at most `limit` entries, all of the
\* bot asked for and of the level asked for, newest first, and they are the
\* `limit` most recent matching entries of the store: as many as match up to
\* the limit, each one from the store, and no matching entry left out is
\* newer than one returned.
C25_GetBotLogs ==
    \A t \in Tasks :
        (Succeeded(t) /\ tasks[t].op = "logs") =>
            LET r == tasks[t].logs_data
                limit == tasks[t].limit
                level == tasks[t].level
                m == Find(logs, tasks[t].id, "") IN
            /\ Len(r) <= limit
            /\ \A j \in 1..Len(r) :
                /\ r[j].bot_id = tasks[t].id
                /\ level # "" => r[j].level = level
            /\ \A j \in 1..(Len(r) - 1) : r[j].timestamp >= r[j + 1].timestamp
            /\ \A j \in 1..Len(r) : Count(r, r[j]) <= Count(logs, r[j])
            /\ \A j \in 1..Len(m) :
                (/\ level # "" => m[j].level = level
                 /\ Count(r, m[j]) < Count(logs, m[j])) =>
                    /\ Len(r) = limit
                    /\ \A i \in 1..Len(r) : r[i].timestamp >= m[j].timestamp

\* a level filter and a limit that both cut: two entries returned, of
\* different age, a third matching one and one of another level left out
C25_Witness ==
    \E t \in Tasks :
        /\ Succeeded(t) /\ tasks[t].op = "logs"
        /\ tasks[t].level # "" /\ tasks[t].limit = 2
        /\ Len(tasks[t].logs_data) = 2
        /\ tasks[t].logs_data[1].timestamp > tasks[t].logs_data[2].timestamp
        /\ Len(Find(logs, tasks[t].id, tasks[t].level)) = 3
        /\ Len(Find(logs, tasks[t].id, "")) > 3

(* ------------------------------ log store ------------------------------ *)
\* C26: no step modifies or removes a stored log entry: the store of before
\* is a prefix of the store of after.
C26_AppendOnly ==
    [][/\ Len(logs') >= Len(logs)
       /\ \A j \in 1..Len(logs) : logs'[j] = logs[j]]_vars

\* C30: once delete_bot has returned success on an id, the log store holds
\* no entry of that id.
C30_NoOrphanLogs ==
    \A t \in Tasks :
        (Succeeded(t) /\ tasks[t].op = "delete") =>
            \A j \in 1..Len(logs) : logs[j].bot_id # tasks[t].id

(* ------------------------------ delete_bot ----------------------------- *)
\* C27: delete_bot enters stop_bot when the record it read is Running; when
\* it has returned success no record of that id is stored, a record only
\* comes into the store by create_bot's insert under its new id, and a get,
\* start, stop or restart that reads the store after the delete returned ends
\* with NotFound; with other requests on the same id in flight.
C27_DeleteRemoves ==
    [][/\ \A t \in Tasks :
            /\ (/\ Steps(t)
                /\ tasks[t].op = "delete" /\ tasks[t].pc = "delete_read"
                /\ Exists(bots, tasks[t].id)
                /\ bots[tasks[t].id].status = RUNNING) =>
                    tasks'[t].pc = "stop_read"
            /\ (/\ tasks'[t].op = "delete" /\ tasks'[t].pc = "done"
                /\ tasks'[t].result.kind = "ok") =>
                    ~Exists(bots', tasks'[t].id)
       /\ \A id \in DOMAIN bots' \ DOMAIN bots :
            \E t \in Tasks :
                /\ Steps(t)
                /\ tasks[t].op = "create" /\ tasks[t].pc = "create_insert"
                /\ tasks[t].id = id
       /\ \A t, u \in Tasks :
            (/\ Succeeded(t) /\ tasks[t].op = "delete"
             /\ Steps(u)
             /\ tasks[u].op \in {"get", "start", "stop", "restart"}
             /\ tasks[u].pc = FirstPc(tasks[u].op)
             /\ tasks[u].site # "handler"
             /\ tasks[u].id = tasks[t].id) =>
                /\ tasks'[u].pc = "done"
                /\ tasks'[u].result = NotFound]_vars

\* a delete has returned success and a start of the same bot, in flight
\* meanwhile, returned success after the record was gone
C27_Witness ==
    \E t, u \in Tasks :
        /\ Succeeded(t) /\ tasks[t].op = "delete"
        /\ Succeeded(u) /\ tasks[u].op = "start"
        /\ tasks[u].id = tasks[t].id
        /\ tasks[u].at = NoBot
        /\ ~Exists(bots, tasks[t].id)

(* ------------------------------ update_bot ----------------------------- *)
Updating(t) ==
    /\ Steps(t)
    /\ tasks[t].op = "update"
    /\ tasks[t].pc \in {"update_read", "update_set", "update_log", "update_reread"}

\* C28: a step of update_bot changes no record but by setting the supplied
\* field on the record of its id, and leaves status, pid, last_started and
\* last_stopped of every record as they are; with no field supplied no step
\* of it changes a record or the log store; the record it returns is the
\* stored one, carrying the supplied field.
C28_UpdateFrame ==
    [][\A t \in Tasks :
        Updating(t) =>
            LET tk == tasks[t] IN
            /\ DOMAIN bots' = DOMAIN bots
            /\ \A id \in DOMAIN bots :
                /\ bots'[id].status = bots[id].status
                /\ bots'[id].pid = bots[id].pid
                /\ bots'[id].last_started = bots[id].last_started
                /\ bots'[id].last_stopped = bots[id].last_stopped
                /\ id # tk.id => bots'[id] = bots[id]
            /\ (tk.pc = "update_set" /\ Exists(bots, tk.id)) =>
                    bots' = [bots EXCEPT ![tk.id].name = tk.arg]
            /\ tk.pc # "update_set" => bots' = bots
            /\ tk.arg = "" => (bots' = bots /\ logs' = logs)
            /\ (tasks'[t].pc = "done" /\ tasks'[t].result.kind = "ok") =>
                    /\ tasks'[t].at = bots'[tk.id]
                    /\ tk.arg # "" => tasks'[t].at.name = tk.arg]_vars

\* an update of the name has returned the record of a Running bot
C28_Witness ==
    \E t \in Tasks :
        /\ Succeeded(t) /\ tasks[t].op = "update"
        /\ tasks[t].arg # ""
        /\ tasks[t].at.name = tasks[t].arg
        /\ tasks[t].at.status = RUNNING
        /\ tasks[t].at.pid # None

(* ------------------------------ broadcast ------------------------------ *)
\* the connections the broadcast of connection s's loop has delivered to when
\* the send_text it awaits is over
Delivered(s) ==
    sockets[s].sent \cup
        IF sockets[sockets[s].connection].client = "open"
        THEN {sockets[s].connection} ELSE {}

\* C29: when a broadcast returns, every connection that was in
\* active_connections when it began and whose client is still there has been
\* sent the message.
C29_NoneSkipped ==
    [][\A s \in Sockets :
        (sockets[s].pc = "ws_send" /\ sockets'[s].pc = "sleep") =>
            \A j \in 1..Len(sockets[s].targets) :
                sockets'[sockets[s].targets[j]].client = "open" =>
                    sockets[s].targets[j] \in Delivered(s)]_vars

(* --------------------------- returned objects -------------------------- *)
\* C31: a bot that get_bots returns with status Stopped is returned with no
\* pid, as the stored record of a Stopped bot has none.
C31_ReturnedStoppedNoPid ==
    \A t \in Tasks :
        (Succeeded(t) /\ tasks[t].op = "gets") =>
            \A k \in 1..Len(tasks[t].bots_data) :
                tasks[t].bots_data[k].bot.status = STOPPED =>
                    tasks[t].bots_data[k].bot.pid = None

(* ------------------------------- metrics ------------------------------- *)
\* C32: in every system_update being broadcast, active_bots is at most
\* total_bots and equals the number of entries of running_bots.
C32_MetricsAgree ==
    \A s \in Sockets :
        sockets[s].message.type = "system_update" =>
            /\ sockets[s].message.metrics.active_bots <=
                    sockets[s].message.metrics.total_bots
            /\ sockets[s].message.metrics.active_bots =
                    Len(sockets[s].message.running_bots)

====
